---- MODULE Spec2Model ----
(***************************************************************************)
(* JERI Chat: the message reconciliation / translation pipeline of         *)
(* src/App.tsx and the Sync Adapter of src/services/chatSync.ts.           *)
(*                                                                         *)
(* One action is one event-loop task of the browser: a UI event handler,   *)
(* a promise continuation or a websocket callback, together with the React *)
(* commit and the effects that the state change triggers.  The remote      *)
(* store, the realtime server and the translation gateway are the          *)
(* environment.                                                            *)
(***************************************************************************)
EXTENDS Integers, Sequences, FiniteSets, Bags, TLC

\* ------------------------------------------------------------------ bounds
MaxTime == 2        \* the client clock and the creation times range over 1..MaxTime
MaxEnters == 2      \* room entries (each creates one realtime channel)
MaxSends == 2       \* local sends
MaxOther == 2       \* rows inserted by the other user
MaxInflight == 2    \* translation requests in flight
MaxOps == 3         \* room entries, local sends and rows of the other user, together
MaxConnects == 3    \* connect() calls of a client of the Sync Adapter alone
MaxInserts == 2     \* rows inserted while a client drives the Sync Adapter alone
MaxAuthCalls == 2   \* calls of supabase.auth made by the App
MaxRows == 52       \* rows of a store that fetchHistory is called on

HISTORY_LIMIT == 50

Rooms == {"A", "B"}
Self == "me@jeri.chat"
Other == "you@jeri.chat"
Langs == {"en", "es"}
AccountLang == "en" \* the preferredLanguage the account was signed up with
OtherLang == "es"   \* the preferred language of the other user
Drafts == {"hi"}
Inputs == Drafts \cup {" "}   \* what the input field can hold besides ""

NoUser == [email |-> "", preferredLanguage |-> "", isGuest |-> FALSE]
NoRoom == ""
NoError == ""
NoText == "<undefined>"
NoChannel == 0

VARIABLES
  currentUser,       \* App state: the signed-in user, or NoUser
  userRef,           \* App ref: userRef.current
  currentRoom,       \* App state: currentRoom.id, or NoRoom
  messages,          \* App state: the message list
  isHistoryLoading,  \* App state
  inputText,         \* App state: the draft
  error,             \* App state
  now,               \* the client clock: the value Date.now() returned last
  rows,              \* the remote store: the rows of table messages, in insertion order
  roomChannel,       \* ChatSync.roomChannel: a channel id, or NoChannel
  handlers,          \* ChatSync.handlers
  channels,          \* the realtime channels not yet closed: id -> [room, state, queue]
  connects,          \* connect() calls suspended at `await this.roomChannel.unsubscribe()`
  fetches,           \* fetchHistory() calls in flight, with the isMounted flag of their effect
  sends,             \* chatSync.sendMessage() calls in flight, with the closure of sendMessage
  inflight,          \* translateText() calls in flight: a bag of [id, text]
  nextChan,          \* the next channel id
  nSends,            \* local sends made so far
  invoked,           \* history variable: the invocations of the listeners of a client of
                     \* the Sync Adapter alone, a bag of [handler, id]
  auth,              \* supabase.auth: [calls, made, language, session], the calls in
                     \* flight, their number so far, the preferredLanguage of the
                     \* account's user_metadata, and whether a session exists
  localStorage,      \* localStorage item 'jeri_guest_user': a user, or NoUser when absent
  shown,             \* history variable: [room, ids], the room left last and the ids of
                     \* the messages the list held when it was left
  admitPhase         \* history variable: "merged" once a history merge made the list, then
                     \* "live" / "overlap" while only live events (one with an id already
                     \* in the list) were admitted after it; "none" otherwise

vars == <<currentUser, userRef, currentRoom, messages, isHistoryLoading, inputText,
          error, now, rows, roomChannel, handlers, channels, connects, fetches,
          sends, inflight, nextChan, nSends, invoked, auth, localStorage, shown,
          admitPhase>>

appVars == <<currentUser, userRef, currentRoom, messages, isHistoryLoading, inputText,
             error, now, fetches, sends, inflight, nSends, auth, localStorage,
             shown, admitPhase>>

sessionVars == <<auth, localStorage>>

\* ------------------------------------------------------------------ ids
\* A message id is a server-assigned row id or the client's `temp-${Date.now()}`.
RowId(n) == [temp |-> FALSE, n |-> n]

TempId(t) == [temp |-> TRUE, n |-> t]

\* m.id.toString().startsWith('temp-')
IsTemp(id) == id.temp

\* ------------------------------------------------------------------ pure helpers
\* Array.prototype.sort((a, b) => a.timestamp - b.timestamp): a stable sort.
SortByTimestamp(seq) ==
  LET Sorted(s) ==
        LET n == Len(s)
            rank(i) == 1 + Cardinality({j \in 1..n :
                             \/ s[j].timestamp < s[i].timestamp
                             \/ s[j].timestamp = s[i].timestamp /\ j < i})
        IN [k \in 1..n |-> s[CHOOSE i \in 1..n : rank(i) = k]]
  IN CHOOSE sorted \in {Sorted(s) : s \in {seq}} : TRUE

\* new Map(); forEach(m => unique.set(m.id, m)); Array.from(unique.values()):
\* the keys in order of first insertion, each with the value set last.
UniqueById(seq) ==
  LET Unique(s) ==
        LET n == Len(s)
            first(i) == \A j \in 1..(i - 1) : s[j].id # s[i].id
            last(i) == CHOOSE j \in i..n :
                         /\ s[j].id = s[i].id
                         /\ \A k \in (j + 1)..n : s[k].id # s[i].id
            idxs == SelectSeq([i \in 1..n |-> i], first)
        IN [k \in 1..Len(idxs) |-> s[last(idxs[k])]]
  IN CHOOSE unique \in {Unique(s) : s \in {seq}} : TRUE

RemoveAt(seq, i) == SubSeq(seq, 1, i - 1) \o SubSeq(seq, i + 1, Len(seq))

\* String.prototype.trim() on the drafts of the model.
Trim(t) == IF t \in {"", " "} THEN "" ELSE t

\* ------------------------------------------------------------------ Sync Adapter, remote store
\* The row -> Message conversion of the postgres_changes callback and of fetchHistory:
\* room_id is dropped, created_at becomes the timestamp, and the object has no
\* isTranslating and no translatedText (both undefined: falsy, which is all the code tests).
RowToMessage(row) ==
  [id |-> RowId(row.id), senderEmail |-> row.sender_email,
   senderLanguage |-> row.sender_language, text |-> row.text,
   timestamp |-> row.created_at, isTranslating |-> FALSE, translatedText |-> NoText]

\* .order('created_at', { ascending: true }): rows of equal creation time in insertion order.
OrderByCreatedAt(seq) ==
  LET Ordered(s) ==
        LET n == Len(s)
            rank(i) == 1 + Cardinality({j \in 1..n :
                             \/ s[j].created_at < s[i].created_at
                             \/ s[j].created_at = s[i].created_at /\ j < i})
        IN [k \in 1..n |-> s[CHOOSE i \in 1..n : rank(i) = k]]
  IN CHOOSE ordered \in {Ordered(s) : s \in {seq}} : TRUE

InRoom(table, roomId) == SelectSeq(table, LAMBDA r : r.room_id = roomId)

Limit(seq, k) == SubSeq(seq, 1, IF Len(seq) < k THEN Len(seq) ELSE k)

\* fetchHistory(roomId) on the store contents `table`, when the query succeeds.
FetchHistory(table, roomId) ==
  CHOOSE history \in
    {[i \in 1..Len(data) |-> RowToMessage(data[i])] :
       data \in {Limit(OrderByCreatedAt(InRoom(table, roomId)), HISTORY_LIMIT)}} : TRUE

\* ------------------------------------------------------------------ pipeline, pure parts
HasId(list, id) == \E i \in 1..Len(list) : list[i].id = id

\* prev.findIndex(m => m.id startsWith 'temp-' && same senderEmail && same text); 0 for -1
TempMatchIdx(prev, msg) ==
  LET hit == {i \in 1..Len(prev) : /\ IsTemp(prev[i].id)
                                    /\ prev[i].senderEmail = msg.senderEmail
                                    /\ prev[i].text = msg.text}
  IN IF hit = {} THEN 0 ELSE CHOOSE i \in hit : \A j \in hit : i <= j

\* newMessage with the sender test of line 123 left out.
NewMessage_NoSenderTest(msg, user) ==
  [msg EXCEPT !.isTranslating = msg.senderLanguage # user.preferredLanguage]

\* newMessage of processMessage
NewMessage(msg, user) ==
  [msg EXCEPT !.isTranslating = /\ msg.senderLanguage # user.preferredLanguage
                                /\ msg.senderEmail # user.email]

\* The updater of processMessage without the duplicate test of line 113.
ProcessMessage_NoDuplicateTest(prev, msg, user) ==
  LET idx == TempMatchIdx(prev, msg)
      newList == IF idx # 0 THEN [prev EXCEPT ![idx] = NewMessage(msg, user)]
                 ELSE Append(prev, NewMessage(msg, user))
  IN SortByTimestamp(newList)

\* The updater of processMessage: prev => ... (user is userRef.current, not null).
ProcessMessage(prev, msg, user) ==
  IF HasId(prev, msg.id) THEN prev
  ELSE LET idx == TempMatchIdx(prev, msg)
           newList == IF idx # 0 THEN [prev EXCEPT ![idx] = NewMessage(msg, user)]
                      ELSE Append(prev, NewMessage(msg, user))
       IN SortByTimestamp(newList)

\* The updater of initRoom's history merge.
MergeHistory(history, prev) == SortByTimestamp(UniqueById(history \o prev))

\* optimisticMessage of sendMessage
OptimisticMessage(user, text, t) ==
  [id |-> TempId(t), senderEmail |-> user.email, senderLanguage |-> user.preferredLanguage,
   text |-> text, timestamp |-> t, isTranslating |-> FALSE, translatedText |-> NoText]

\* sendMessage without the optimistic append.
AppendOptimistic_Skip(prev, m) == prev

\* setMessages(prev => [...prev, optimisticMessage])
AppendOptimistic(prev, m) == Append(prev, m)

\* The rollback filtering on the wrong id: nothing is removed.
Rollback_KeepsAll(prev, tempId) == SelectSeq(prev, LAMBDA m : m.id # RowId(0))

\* setMessages(prev => prev.filter(m => m.id !== tempId))
Rollback(prev, tempId) == SelectSeq(prev, LAMBDA m : m.id # tempId)

\* messages.find(m => m.isTranslating && !m.translatedText): its index, 0 for undefined
UntranslatedIdx(list) ==
  LET hit == {i \in 1..Len(list) : /\ list[i].isTranslating
                                    /\ list[i].translatedText \in {NoText, ""}}
  IN IF hit = {} THEN 0 ELSE CHOOSE i \in hit : \A j \in hit : i <= j

\* The updater of doTranslation without `isTranslating: false`.
ApplyTranslation_KeepsMarking(prev, id, translated) ==
  [i \in 1..Len(prev) |->
     IF prev[i].id = id THEN [prev[i] EXCEPT !.translatedText = translated] ELSE prev[i]]

\* An updater of doTranslation that puts the translated message back when the list does
\* not hold it.
ApplyTranslation_Upsert(prev, id, translated) ==
  IF \E i \in 1..Len(prev) : prev[i].id = id
  THEN [i \in 1..Len(prev) |->
          IF prev[i].id = id
          THEN [prev[i] EXCEPT !.translatedText = translated, !.isTranslating = FALSE]
          ELSE prev[i]]
  ELSE Append(prev, [id |-> id, senderEmail |-> Other, senderLanguage |-> OtherLang,
                     text |-> translated, timestamp |-> 1, isTranslating |-> FALSE,
                     translatedText |-> translated])

\* The updater of doTranslation without the test `m.id === untranslated.id`.
ApplyTranslation_All(prev, id, translated) ==
  [i \in 1..Len(prev) |->
     [prev[i] EXCEPT !.translatedText = translated, !.isTranslating = FALSE]]

\* The updater of doTranslation, on success and in the catch branch alike.
ApplyTranslation(prev, id, translated) ==
  [i \in 1..Len(prev) |->
     IF prev[i].id = id
     THEN [prev[i] EXCEPT !.translatedText = translated, !.isTranslating = FALSE]
     ELSE prev[i]]

\* The translation effect, run after a commit that changed `messages` or `currentUser`:
\* the requests in flight after it.
TranslationEffect(list, user, reqs) ==
  LET i == UntranslatedIdx(list)
  IN IF i # 0 /\ user # NoUser
     THEN reqs (+) SetToBag({[id |-> list[i].id, text |-> list[i].text]})
     ELSE reqs

\* ------------------------------------------------------------------ Sync Adapter, state
\* The fields of the ChatSync singleton, with the channels of the realtime client.
Adapter ==
  [roomChannel |-> roomChannel, handlers |-> handlers, channels |-> channels,
   connects |-> connects, nextChan |-> nextChan, invoked |-> invoked]

SetAdapter(a) ==
  /\ roomChannel' = a.roomChannel
  /\ handlers' = a.handlers
  /\ channels' = a.channels
  /\ connects' = a.connects
  /\ nextChan' = a.nextChan
  /\ invoked' = a.invoked

adapterVars == <<roomChannel, handlers, channels, connects, nextChan, invoked>>

\* channel.unsubscribe(): the channel starts leaving; it is closed when the server answers.
Unsubscribe(chs, c) ==
  IF c \in DOMAIN chs THEN [chs EXCEPT ![c].state = "leaving"] ELSE chs

\* this.roomChannel = supabase.channel(`room_db_${roomId}`).on(...).subscribe(...)
Subscribe(a, roomId) ==
  [a EXCEPT !.channels = a.channels @@
                (a.nextChan :> [room |-> roomId, state |-> "joined", queue |-> <<>>]),
            !.roomChannel = a.nextChan,
            !.nextChan = a.nextChan + 1]

\* connect without the teardown of lines 24-26: it subscribes at once.
Connect_NoTeardown(a, roomId) == Subscribe(a, roomId)

\* connect(roomId), up to its first suspension: with a roomChannel it calls unsubscribe()
\* and awaits; with none it subscribes at once.
Connect(a, roomId) ==
  IF a.roomChannel # NoChannel
  THEN [a EXCEPT !.channels = Unsubscribe(a.channels, a.roomChannel),
                 !.connects = Append(a.connects,
                                [room |-> roomId, awaiting |-> a.roomChannel])]
  ELSE Subscribe(a, roomId)

\* disconnect without `this.handlers.clear()`.
Disconnect_KeepsHandlers(a) ==
  [a EXCEPT !.channels = IF a.roomChannel # NoChannel
                         THEN Unsubscribe(a.channels, a.roomChannel) ELSE a.channels,
            !.roomChannel = NoChannel]

\* disconnect()
Disconnect(a) ==
  [a EXCEPT !.channels = IF a.roomChannel # NoChannel
                         THEN Unsubscribe(a.channels, a.roomChannel) ELSE a.channels,
            !.roomChannel = NoChannel,
            !.handlers = {}]

\* onMessage(handler)
OnMessage(a, h) == [a EXCEPT !.handlers = a.handlers \cup {h}]

\* The closure clearing the set instead of deleting its listener.
RemoveHandler_Clear(a, h) == [a EXCEPT !.handlers = {}]

\* the closure onMessage returns
RemoveHandler(a, h) == [a EXCEPT !.handlers = a.handlers \ {h}]

\* The postgres_changes callback of a channel, for the row with this id:
\* this.handlers.forEach(handler => handler(message))
Dispatch(a, id) ==
  [a EXCEPT !.invoked = a.invoked (+) SetToBag({[handler |-> h, id |-> id] : h \in a.handlers})]

\* The realtime server notifies every channel of the room that has not been closed.
Notify(chs, row) ==
  [c \in DOMAIN chs |->
     IF chs[c].room = row.room_id THEN [chs[c] EXCEPT !.queue = Append(@, row.id)]
     ELSE chs[c]]

LastCreatedAt == IF rows = <<>> THEN 1 ELSE rows[Len(rows)].created_at

NewRow(roomId, email, lang, text, t) ==
  [id |-> Len(rows) + 1, room_id |-> roomId, sender_email |-> email,
   sender_language |-> lang, text |-> text, created_at |-> t]

OtherRows == Cardinality({i \in 1..Len(rows) : rows[i].sender_email = Other})

\* The operations begun by the user or by the other client so far.
Ops == (nextChan - 1) + nSends + OtherRows

\* ------------------------------------------------------------------ initial state
Init ==
  /\ currentUser = NoUser
  /\ userRef = NoUser
  /\ currentRoom = NoRoom
  /\ messages = <<>>
  /\ isHistoryLoading = FALSE
  /\ inputText = ""
  /\ error = NoError
  /\ now = 1
  /\ rows = <<>>
  /\ roomChannel = NoChannel
  /\ handlers = {}
  /\ channels = <<>>
  /\ connects = <<>>
  /\ fetches = {}
  /\ sends = <<>>
  /\ inflight = EmptyBag
  /\ nextChan = 1
  /\ nSends = 0
  /\ invoked = EmptyBag
  /\ auth = [calls |-> <<>>, made |-> 0, language |-> AccountLang, session |-> FALSE]
  /\ localStorage = NoUser
  /\ shown = [room |-> NoRoom, ids |-> {}]
  /\ admitPhase = "none"

\* The commit of a new message list and/or user: the translation effect runs on it.
Commit(list, user) ==
  /\ messages' = list
  /\ inflight' = TranslationEffect(messages', user, inflight)
  /\ BagCardinality(inflight') <= MaxInflight

\* ------------------------------------------------------------------ App: session
\* startGuestMode: a guest signs in with the language chosen at onboarding.
Login(lang) ==
  /\ UNCHANGED shown
  /\ currentUser = NoUser
  /\ currentUser' = [email |-> Self, preferredLanguage |-> lang, isGuest |-> TRUE]
  /\ userRef' = currentUser'
  /\ localStorage' = currentUser'
  /\ error' = NoError
  /\ inflight' = TranslationEffect(messages, currentUser', inflight)
  /\ BagCardinality(inflight') <= MaxInflight
  /\ UNCHANGED <<currentRoom, messages, isHistoryLoading, inputText, now, rows,
                 fetches, sends, nSends, auth, admitPhase>>
  /\ UNCHANGED adapterVars

\* syncUserMetadata and logout without the test of isGuest.
CallsAccountStore_Always(user) == TRUE

\* `if (currentUser.isGuest) {...; return}` of syncUserMetadata and `if (wasGuest)` of
\* logout: only a member's change goes to supabase.auth.
CallsAccountStore(user) == ~user.isGuest

\* A call of supabase.auth is made: it is in flight until its promise settles.
AuthCall(op, lang) ==
  /\ auth.made < MaxAuthCalls
  /\ auth' = [auth EXCEPT !.calls = Append(@, [op |-> op, lang |-> lang]),
                          !.made = @ + 1]

\* A call of supabase.auth settles.
AuthSettle(i, language, session) ==
  auth' = [auth EXCEPT !.calls = RemoveAt(@, i), !.language = language,
                       !.session = session]

\* The user that initSession and the onAuthStateChange listener build from session.user.
Member(lang) == [email |-> Self, preferredLanguage |-> lang, isGuest |-> FALSE]

\* handleLanguageChange -> syncUserMetadata (the settings tab of the lobby): a guest is
\* updated in local state and localStorage; for a member the call runs up to
\* `await supabase.auth.updateUser`.
LanguageChange(lang) ==
  /\ UNCHANGED shown
  /\ currentUser # NoUser
  /\ currentRoom = NoRoom
  /\ lang # currentUser.preferredLanguage
  /\ IF CallsAccountStore(currentUser)
     THEN /\ AuthCall("updateUser", lang)
          /\ UNCHANGED <<currentUser, userRef, inflight, localStorage>>
     ELSE /\ currentUser' = [currentUser EXCEPT !.preferredLanguage = lang]
          /\ userRef' = currentUser'
          /\ localStorage' = currentUser'
          /\ inflight' = TranslationEffect(messages, currentUser', inflight)
          /\ BagCardinality(inflight') <= MaxInflight
          /\ UNCHANGED auth
  /\ UNCHANGED <<currentRoom, messages, isHistoryLoading, inputText, error, now, rows,
                 fetches, sends, nSends, admitPhase>>
  /\ UNCHANGED adapterVars

\* logout without `setMessages([])`.
Logout_KeepsList ==
  /\ UNCHANGED shown
  /\ currentUser # NoUser
  /\ currentRoom = NoRoom
  /\ IF CallsAccountStore(currentUser)
     THEN /\ AuthCall("signOut", "")
          /\ UNCHANGED <<currentUser, userRef, currentRoom, messages, inputText, error,
                         inflight, localStorage, admitPhase>>
     ELSE /\ localStorage' = NoUser
          /\ currentUser' = NoUser
          /\ userRef' = NoUser
          /\ currentRoom' = NoRoom
          /\ inputText' = ""
          /\ error' = NoError
          /\ Commit(messages, NoUser)
          /\ admitPhase' = "none"
          /\ UNCHANGED auth
  /\ UNCHANGED <<isHistoryLoading, now, rows, fetches, sends, nSends>>
  /\ UNCHANGED adapterVars

\* logout (the settings tab of the lobby: no room is open): a guest's item is removed
\* from localStorage and the state is cleared; for a member the call runs up to
\* `await supabase.auth.signOut()`.
Logout ==
  /\ UNCHANGED shown
  /\ currentUser # NoUser
  /\ currentRoom = NoRoom
  /\ IF CallsAccountStore(currentUser)
     THEN /\ AuthCall("signOut", "")
          /\ UNCHANGED <<currentUser, userRef, currentRoom, messages, inputText, error,
                         inflight, localStorage, admitPhase>>
     ELSE /\ localStorage' = NoUser
          /\ currentUser' = NoUser
          /\ userRef' = NoUser
          /\ currentRoom' = NoRoom
          /\ inputText' = ""
          /\ error' = NoError
          /\ Commit(<<>>, NoUser)
          /\ admitPhase' = "none"
          /\ UNCHANGED auth
  /\ UNCHANGED <<isHistoryLoading, now, rows, fetches, sends, nSends>>
  /\ UNCHANGED adapterVars

\* ------------------------------------------------------------------ App: member session
\* handleAuth in the login view: up to `await supabase.auth.signInWithPassword`.
SignIn ==
  /\ UNCHANGED shown
  /\ currentUser = NoUser
  /\ AuthCall("signIn", "")
  /\ error' = NoError
  /\ UNCHANGED <<currentUser, userRef, currentRoom, messages, isHistoryLoading, inputText,
                 now, rows, fetches, sends, inflight, nSends, localStorage, admitPhase>>
  /\ UNCHANGED adapterVars

\* signInWithPassword settles: with a session, and the onAuthStateChange listener sets
\* the member as current user; or with an error, which handleAuth shows.
SignInDone(i, ok) ==
  /\ UNCHANGED shown
  /\ i \in 1..Len(auth.calls)
  /\ auth.calls[i].op = "signIn"
  /\ IF ok
     THEN /\ AuthSettle(i, auth.language, TRUE)
          /\ currentUser' = Member(auth.language)
          /\ userRef' = currentUser'
          /\ inflight' = TranslationEffect(messages, currentUser', inflight)
          /\ BagCardinality(inflight') <= MaxInflight
          /\ UNCHANGED error
     ELSE /\ AuthSettle(i, auth.language, auth.session)
          /\ error' = "Invalid login credentials"
          /\ UNCHANGED <<currentUser, userRef, inflight>>
  /\ UNCHANGED <<currentRoom, messages, isHistoryLoading, inputText, now, rows, fetches,
                 sends, nSends, localStorage, admitPhase>>
  /\ UNCHANGED adapterVars

\* updateUser settles. With the updated user, the continuation of syncUserMetadata merges
\* the metadata into the current user, if there is one; the onAuthStateChange listener,
\* when the client notifies it, sets the member built from the session. With an error
\* nothing is set.
UpdateUserDone(i, ok, notified) ==
  /\ UNCHANGED shown
  /\ i \in 1..Len(auth.calls)
  /\ auth.calls[i].op = "updateUser"
  /\ ok => auth.session
  /\ IF ok
     THEN /\ AuthSettle(i, auth.calls[i].lang, auth.session)
          /\ currentUser' =
               IF notified THEN Member(auth.calls[i].lang)
               ELSE IF currentUser = NoUser THEN NoUser
               ELSE [currentUser EXCEPT !.preferredLanguage = auth.calls[i].lang]
          /\ userRef' = currentUser'
          /\ inflight' = TranslationEffect(messages, currentUser', inflight)
          /\ BagCardinality(inflight') <= MaxInflight
     ELSE /\ AuthSettle(i, auth.language, auth.session)
          /\ UNCHANGED <<currentUser, userRef, inflight>>
  /\ UNCHANGED <<currentRoom, messages, isHistoryLoading, inputText, error, now, rows,
                 fetches, sends, nSends, localStorage, admitPhase>>
  /\ UNCHANGED adapterVars

\* signOut settles and logout continues: the state is cleared; the room effect of an open
\* room is cleaned up.
SignOutDone(i) ==
  /\ UNCHANGED shown
  /\ i \in 1..Len(auth.calls)
  /\ auth.calls[i].op = "signOut"
  /\ AuthSettle(i, auth.language, FALSE)
  /\ currentUser' = NoUser
  /\ userRef' = NoUser
  /\ currentRoom' = NoRoom
  /\ inputText' = ""
  /\ error' = NoError
  /\ Commit(<<>>, NoUser)
  /\ admitPhase' = "none"
  /\ IF currentRoom # NoRoom
     THEN /\ fetches' = {[f EXCEPT !.isMounted = FALSE] : f \in fetches}
          /\ SetAdapter(Disconnect(RemoveHandler(Adapter, "processMessage")))
     ELSE UNCHANGED <<fetches, adapterVars>>
  /\ UNCHANGED <<isHistoryLoading, now, rows, sends, nSends, localStorage>>

\* ------------------------------------------------------------------ App: room effect
\* setCurrentRoom({id}) from the lobby, and the room effect it triggers: initRoom up to
\* `await chatSync.fetchHistory`, then chatSync.onMessage(processMessage).
EnterRoom(r) ==
  /\ UNCHANGED sessionVars
  /\ UNCHANGED shown
  /\ currentUser # NoUser
  /\ currentRoom = NoRoom
  /\ nextChan <= MaxEnters
  /\ Ops < MaxOps
  /\ currentRoom' = r
  /\ isHistoryLoading' = TRUE
  /\ error' = NoError
  /\ Commit(<<>>, currentUser)
  /\ admitPhase' = "none"
  /\ fetches' = fetches \cup
       {[inst |-> nextChan, room |-> r, isMounted |-> TRUE, status |-> "pending", upTo |-> 0]}
  /\ SetAdapter(OnMessage(Connect(Adapter, r), "processMessage"))
  /\ UNCHANGED <<currentUser, userRef, inputText, now, rows, sends, nSends>>

\* The back button with a cleanup that leaves isMounted true.
LeaveRoom_KeepsMounted ==
  /\ UNCHANGED sessionVars
  /\ shown' = [room |-> currentRoom, ids |-> {messages[i].id : i \in 1..Len(messages)}]
  /\ currentRoom # NoRoom
  /\ currentRoom' = NoRoom
  /\ error' = NoError
  /\ UNCHANGED fetches
  /\ SetAdapter(Disconnect(RemoveHandler(Adapter, "processMessage")))
  /\ UNCHANGED <<currentUser, userRef, messages, isHistoryLoading, inputText, now, rows,
                 sends, inflight, nSends, admitPhase>>

\* The back button: setCurrentRoom(null); setError(null); and the cleanup of the room
\* effect: isMounted = false; unsub(); chatSync.disconnect().
LeaveRoom ==
  /\ UNCHANGED sessionVars
  /\ shown' = [room |-> currentRoom, ids |-> {messages[i].id : i \in 1..Len(messages)}]
  /\ currentRoom # NoRoom
  /\ currentRoom' = NoRoom
  /\ error' = NoError
  /\ fetches' = {[f EXCEPT !.isMounted = FALSE] : f \in fetches}
  /\ SetAdapter(Disconnect(RemoveHandler(Adapter, "processMessage")))
  /\ UNCHANGED <<currentUser, userRef, messages, isHistoryLoading, inputText, now, rows,
                 sends, inflight, nSends, admitPhase>>

\* The store runs the query of a fetchHistory call, or fails to.
FetchQuery(f, ok) ==
  /\ UNCHANGED sessionVars
  /\ UNCHANGED shown
  /\ f \in fetches
  /\ f.status = "pending"
  /\ fetches' = (fetches \ {f}) \cup
       {[f EXCEPT !.status = IF ok THEN "ok" ELSE "error", !.upTo = Len(rows)]}
  /\ UNCHANGED <<currentUser, userRef, currentRoom, messages, isHistoryLoading, inputText,
                 error, now, rows, sends, inflight, nSends, admitPhase>>
  /\ UNCHANGED adapterVars

\* fetchHistory with the error of the query ignored.
FetchThrows_Never(f) == FALSE

\* `if (error) throw error`: the fetchHistory call f rejects with the error of its query.
FetchThrows(f) == f.status = "error"

\* What the fetchHistory call f returns, `(data || []).map(...)`: the query ran on the
\* rows that the store held at that time; without data, no message.
HistoryResult(f) ==
  IF f.status = "ok" THEN FetchHistory(SubSeq(rows, 1, f.upTo), f.room) ELSE <<>>

\* initRoom after `await chatSync.fetchHistory`: the merge, or the catch branch; finally.
FetchDone(f) ==
  /\ UNCHANGED sessionVars
  /\ UNCHANGED shown
  /\ f \in fetches
  /\ f.status # "pending"
  /\ fetches' = fetches \ {f}
  /\ IF ~FetchThrows(f)
     THEN /\ error' = error
          /\ IF f.isMounted
             THEN /\ Commit(MergeHistory(HistoryResult(f), messages), currentUser)
                  /\ admitPhase' = "merged"
             ELSE UNCHANGED <<messages, inflight, admitPhase>>
     ELSE /\ error' = "Sync Error"
          /\ UNCHANGED <<messages, inflight, admitPhase>>
  /\ isHistoryLoading' = IF f.isMounted THEN FALSE ELSE isHistoryLoading
  /\ UNCHANGED <<currentUser, userRef, currentRoom, inputText, now, rows, sends, nSends>>
  /\ UNCHANGED adapterVars

\* ------------------------------------------------------------------ App: live channel
\* The postgres_changes callback of channel c: this.handlers.forEach(h => h(message)),
\* with processMessage the only handler the App registers.
LiveDeliver(c) ==
  /\ UNCHANGED sessionVars
  /\ UNCHANGED shown
  /\ c \in DOMAIN channels
  /\ channels[c].queue # <<>>
  /\ channels' = [channels EXCEPT ![c].queue = Tail(@)]
  /\ LET msg == RowToMessage(rows[Head(channels[c].queue)])
         list == ProcessMessage(messages, msg, userRef)
     IN /\ IF "processMessage" \in handlers /\ userRef # NoUser /\ list # messages
           THEN Commit(list, currentUser)
           ELSE UNCHANGED <<messages, inflight>>
        /\ admitPhase' = IF "processMessage" \in handlers /\ userRef # NoUser
                             /\ admitPhase # "none"
                          THEN (IF HasId(messages, msg.id) \/ admitPhase = "overlap"
                                THEN "overlap" ELSE "live")
                          ELSE admitPhase
  /\ UNCHANGED <<currentUser, userRef, currentRoom, isHistoryLoading, inputText, error,
                 now, rows, fetches, sends, nSends>>
  /\ UNCHANGED <<roomChannel, handlers, connects, nextChan, invoked>>

\* ------------------------------------------------------------------ App: local send
\* The input's onChange.
SetInput(t) ==
  /\ UNCHANGED sessionVars
  /\ UNCHANGED shown
  /\ currentUser # NoUser
  /\ currentRoom # NoRoom
  /\ t \in Inputs
  /\ t # inputText
  /\ inputText' = t
  /\ UNCHANGED <<currentUser, userRef, currentRoom, messages, isHistoryLoading, error,
                 now, rows, fetches, sends, inflight, nSends, admitPhase>>
  /\ UNCHANGED adapterVars

\* sendMessage without its first line: it never returns early.
CanSend_Always(text, user, room) == TRUE

\* `if (!inputText.trim() || !currentUser || !currentRoom) return;` negated.
CanSend(text, user, room) == Trim(text) # "" /\ user # NoUser /\ room # NoRoom

\* sendMessage up to `await chatSync.sendMessage`, or to its early return; Date.now()
\* returns t, which is the value it returned last when both sends fall into the same
\* millisecond.
Send(t) ==
  IF CanSend(inputText, currentUser, currentRoom)
  THEN /\ UNCHANGED sessionVars
       /\ UNCHANGED shown
       /\ t \in now..MaxTime
       /\ now' = t
       /\ nSends < MaxSends
       /\ Ops < MaxOps
       /\ nSends' = nSends + 1
       /\ inputText' = ""
       /\ error' = NoError
       /\ Commit(AppendOptimistic(messages, OptimisticMessage(currentUser, inputText, t)),
                 currentUser)
       /\ sends' = Append(sends, [tempId |-> TempId(t), text |-> inputText,
                                  room |-> currentRoom, senderEmail |-> currentUser.email,
                                  senderLanguage |-> currentUser.preferredLanguage])
       /\ admitPhase' = "none"
       /\ UNCHANGED <<currentUser, userRef, currentRoom, isHistoryLoading, rows, fetches>>
       /\ UNCHANGED adapterVars
  ELSE UNCHANGED vars

\* The store accepts the insert of send i: the row exists, the realtime server notifies
\* the channels of the room, and the awaited promise resolves with nothing left to do.
SendAccepted(i, t) ==
  /\ UNCHANGED sessionVars
  /\ UNCHANGED shown
  /\ i \in 1..Len(sends)
  /\ t \in LastCreatedAt..MaxTime
  /\ LET s == sends[i]
         row == NewRow(s.room, s.senderEmail, s.senderLanguage, s.text, t)
     IN /\ rows' = Append(rows, row)
        /\ channels' = Notify(channels, row)
  /\ sends' = RemoveAt(sends, i)
  /\ UNCHANGED <<currentUser, userRef, currentRoom, messages, isHistoryLoading, inputText,
                 error, now, fetches, inflight, nSends, admitPhase>>
  /\ UNCHANGED <<roomChannel, handlers, connects, nextChan, invoked>>

\* The store rejects the insert of send i: the catch branch of sendMessage.
SendRejected(i) ==
  /\ UNCHANGED sessionVars
  /\ UNCHANGED shown
  /\ i \in 1..Len(sends)
  /\ error' = "Send Failed"
  /\ Commit(Rollback(messages, sends[i].tempId), currentUser)
  /\ inputText' = sends[i].text
  /\ sends' = RemoveAt(sends, i)
  /\ admitPhase' = "none"
  /\ UNCHANGED <<currentUser, userRef, currentRoom, isHistoryLoading, now, rows, fetches,
                 nSends>>
  /\ UNCHANGED adapterVars

\* ------------------------------------------------------------------ App: translation
\* translateText's result for a request: the gateway's text, or the original text when
\* the gateway fails or answers nothing (`response.text?.trim() || text`, `return text`).
Translated(text) == "tr:" \o text

\* doTranslation after `await translateText`.
TranslateDone(req, ok) ==
  /\ UNCHANGED sessionVars
  /\ UNCHANGED shown
  /\ BagIn(req, inflight)
  /\ LET list == ApplyTranslation(messages, req.id,
                                  IF ok THEN Translated(req.text) ELSE req.text)
     IN /\ messages' = list
        /\ inflight' = TranslationEffect(list, currentUser, inflight (-) SetToBag({req}))
        /\ BagCardinality(inflight') <= MaxInflight
  /\ UNCHANGED <<currentUser, userRef, currentRoom, isHistoryLoading, inputText, error,
                 now, rows, fetches, sends, nSends, admitPhase>>
  /\ UNCHANGED adapterVars

\* ------------------------------------------------------------------ environment
\* The other client inserts a row into room r.
OtherInsert(r, text, t) ==
  /\ UNCHANGED sessionVars
  /\ UNCHANGED shown
  /\ OtherRows < MaxOther
  /\ Ops < MaxOps
  /\ t \in LastCreatedAt..MaxTime
  /\ LET row == NewRow(r, Other, OtherLang, text, t)
     IN /\ rows' = Append(rows, row)
        /\ channels' = Notify(channels, row)
  /\ UNCHANGED <<currentUser, userRef, currentRoom, messages, isHistoryLoading, inputText,
                 error, now, fetches, sends, inflight, nSends, admitPhase>>
  /\ UNCHANGED <<roomChannel, handlers, connects, nextChan, invoked>>

\* The realtime server answers the leave of channel c: the channel is closed.
ChannelClosed(c) ==
  /\ c \in DOMAIN channels
  /\ channels[c].state = "leaving"
  /\ channels' = [d \in DOMAIN channels \ {c} |-> channels[d]]
  /\ UNCHANGED appVars
  /\ UNCHANGED <<rows, roomChannel, handlers, connects, nextChan, invoked>>

Next ==
  \/ \E lang \in Langs : Login(lang)
  \/ \E lang \in Langs : LanguageChange(lang)
  \/ Logout
  \/ \E r \in Rooms : EnterRoom(r)
  \/ LeaveRoom
  \/ \E f \in fetches, ok \in BOOLEAN : FetchQuery(f, ok)
  \/ \E f \in fetches : FetchDone(f)
  \/ \E c \in DOMAIN channels : LiveDeliver(c)
  \/ \E t \in Inputs : SetInput(t)
  \/ \E t \in 1..MaxTime : Send(t)
  \/ \E i \in 1..Len(sends), t \in 1..MaxTime : SendAccepted(i, t)
  \/ \E i \in 1..Len(sends) : SendRejected(i)
  \/ \E req \in BagToSet(inflight), ok \in BOOLEAN : TranslateDone(req, ok)
  \/ \E r \in Rooms, text \in Drafts, t \in 1..MaxTime : OtherInsert(r, text, t)
  \/ \E c \in DOMAIN channels : ChannelClosed(c)

Spec == Init /\ [][Next]_vars

\* The App when every pending promise is settled and every queued event is delivered:
\* the store answers each history query, the gateway answers each translation request
\* (with a result or a failure), and the callbacks of the answers run.
Fairness ==
  /\ WF_vars(\E f \in fetches, ok \in BOOLEAN : FetchQuery(f, ok))
  /\ WF_vars(\E f \in fetches : FetchDone(f))
  /\ WF_vars(\E c \in DOMAIN channels : LiveDeliver(c))
  /\ WF_vars(\E req \in BagToSet(inflight), ok \in BOOLEAN : TranslateDone(req, ok))

SpecFair == Spec /\ Fairness

\* The App built without process.env.API_KEY: every translateText call rejects with
\* "API key is missing" before a request to the gateway is made.
NextNoKey ==
  \/ \E lang \in Langs : Login(lang)
  \/ \E lang \in Langs : LanguageChange(lang)
  \/ Logout
  \/ \E r \in Rooms : EnterRoom(r)
  \/ LeaveRoom
  \/ \E f \in fetches, ok \in BOOLEAN : FetchQuery(f, ok)
  \/ \E f \in fetches : FetchDone(f)
  \/ \E c \in DOMAIN channels : LiveDeliver(c)
  \/ \E t \in Inputs : SetInput(t)
  \/ \E t \in 1..MaxTime : Send(t)
  \/ \E i \in 1..Len(sends), t \in 1..MaxTime : SendAccepted(i, t)
  \/ \E i \in 1..Len(sends) : SendRejected(i)
  \/ \E req \in BagToSet(inflight) : TranslateDone(req, FALSE)
  \/ \E r \in Rooms, text \in Drafts, t \in 1..MaxTime : OtherInsert(r, text, t)
  \/ \E c \in DOMAIN channels : ChannelClosed(c)

FairnessNoKey ==
  /\ WF_vars(\E f \in fetches, ok \in BOOLEAN : FetchQuery(f, ok))
  /\ WF_vars(\E f \in fetches : FetchDone(f))
  /\ WF_vars(\E c \in DOMAIN channels : LiveDeliver(c))
  /\ WF_vars(\E req \in BagToSet(inflight) : TranslateDone(req, FALSE))

SpecNoKey == Init /\ [][NextNoKey]_vars /\ FairnessNoKey

\* The App with guests and a member of the account store, who enter and leave rooms and
\* read what the other user writes there.
NextSession ==
  \/ \E lang \in Langs : Login(lang)
  \/ SignIn
  \/ \E i \in 1..Len(auth.calls), ok \in BOOLEAN : SignInDone(i, ok)
  \/ \E lang \in Langs : LanguageChange(lang)
  \/ \E i \in 1..Len(auth.calls), ok, notified \in BOOLEAN : UpdateUserDone(i, ok, notified)
  \/ Logout
  \/ \E i \in 1..Len(auth.calls) : SignOutDone(i)
  \/ \E r \in Rooms : EnterRoom(r)
  \/ LeaveRoom
  \/ \E c \in DOMAIN channels : LiveDeliver(c)
  \/ \E req \in BagToSet(inflight), ok \in BOOLEAN : TranslateDone(req, ok)
  \/ \E r \in Rooms, text \in Drafts, t \in 1..MaxTime : OtherInsert(r, text, t)
  \/ \E c \in DOMAIN channels : ChannelClosed(c)

SpecSession == Init /\ [][NextSession]_vars

\* ------------------------------------------------------------------ the Sync Adapter alone
\* The adapter under a client that calls its operations in any order and overlap, as its
\* contract allows; the App's state is not involved.
Handlers == {"h1", "h2"}

ConnectCalls == (nextChan - 1) + Len(connects)

\* A client calls connect(roomId): the call runs up to its await, or to its end.
AdapterConnect(r) ==
  /\ ConnectCalls < MaxConnects
  /\ SetAdapter(Connect(Adapter, r))
  /\ UNCHANGED appVars
  /\ UNCHANGED rows

\* connect(roomId) after `await this.roomChannel.unsubscribe()`: the awaited channel is
\* closed, and the call subscribes.
ConnectResume(i) ==
  /\ i \in 1..Len(connects)
  /\ connects[i].awaiting \notin DOMAIN channels
  /\ SetAdapter(Subscribe([Adapter EXCEPT !.connects = RemoveAt(connects, i)],
                          connects[i].room))
  /\ UNCHANGED appVars
  /\ UNCHANGED rows

\* A client calls disconnect().
AdapterDisconnect ==
  /\ SetAdapter(Disconnect(Adapter))
  /\ UNCHANGED appVars
  /\ UNCHANGED rows

\* A client calls onMessage(h).
AdapterOnMessage(h) ==
  /\ h \notin handlers
  /\ SetAdapter(OnMessage(Adapter, h))
  /\ UNCHANGED appVars
  /\ UNCHANGED rows

\* A client calls the closure that onMessage(h) returned.
AdapterRemoveHandler(h) ==
  /\ SetAdapter(RemoveHandler(Adapter, h))
  /\ UNCHANGED appVars
  /\ UNCHANGED rows

\* Some client inserts a row into room r: the realtime server notifies the channels of
\* the room.
AdapterInsert(r) ==
  /\ Len(rows) < MaxInserts
  /\ LET row == NewRow(r, Other, OtherLang, "hi", LastCreatedAt)
     IN /\ rows' = Append(rows, row)
        /\ channels' = Notify(channels, row)
  /\ UNCHANGED appVars
  /\ UNCHANGED <<roomChannel, handlers, connects, nextChan, invoked>>

\* The postgres_changes callback of channel c runs for the next event of the channel.
AdapterDeliver(c) ==
  /\ c \in DOMAIN channels
  /\ channels[c].queue # <<>>
  /\ SetAdapter(Dispatch([Adapter EXCEPT !.channels[c].queue = Tail(@)],
                         Head(channels[c].queue)))
  /\ UNCHANGED appVars
  /\ UNCHANGED rows

NextAdapter ==
  \/ \E r \in Rooms : AdapterConnect(r)
  \/ \E i \in 1..Len(connects) : ConnectResume(i)
  \/ AdapterDisconnect
  \/ \E h \in Handlers : AdapterOnMessage(h)
  \/ \E h \in Handlers : AdapterRemoveHandler(h)
  \/ \E r \in Rooms : AdapterInsert(r)
  \/ \E c \in DOMAIN channels : AdapterDeliver(c)
  \/ \E c \in DOMAIN channels : ChannelClosed(c)

SpecAdapter == Init /\ [][NextAdapter]_vars

\* The adapter under a client that does not call connect() while an earlier connect()
\* call has not completed; its other calls come in any order.
SerialConnect(r) ==
  /\ connects = <<>>
  /\ AdapterConnect(r)

NextSerial ==
  \/ \E r \in Rooms : SerialConnect(r)
  \/ \E i \in 1..Len(connects) : ConnectResume(i)
  \/ AdapterDisconnect
  \/ \E h \in Handlers : AdapterOnMessage(h)
  \/ \E h \in Handlers : AdapterRemoveHandler(h)
  \/ \E r \in Rooms : AdapterInsert(r)
  \/ \E c \in DOMAIN channels : AdapterDeliver(c)
  \/ \E c \in DOMAIN channels : ChannelClosed(c)

SpecSerial == Init /\ [][NextSerial]_vars

\* ------------------------------------------------------------------ fetchHistory alone
\* fetchHistory on the stores it can be called on.  A store of n rows, inserted one after
\* the other: the rows of room "A", except row p (if any) which belongs to room "B"; with
\* `pairs`, two consecutive inserts fall into the same unit of time.
StoredTable(n, p, pairs) ==
  [i \in 1..n |->
     [id |-> i, room_id |-> IF i = p THEN "B" ELSE "A", sender_email |-> Other,
      sender_language |-> OtherLang, text |-> "hi",
      created_at |-> IF pairs THEN (i + 1) \div 2 ELSE i]]

StoredTables ==
  {StoredTable(n, p, pairs) : n \in 0..MaxRows, p \in {0, 1, MaxRows}, pairs \in BOOLEAN}

InitHistory ==
  /\ currentUser = NoUser
  /\ userRef = NoUser
  /\ currentRoom = NoRoom
  /\ messages = <<>>
  /\ isHistoryLoading = FALSE
  /\ inputText = ""
  /\ error = NoError
  /\ now = 1
  /\ rows \in StoredTables
  /\ roomChannel = NoChannel
  /\ handlers = {}
  /\ channels = <<>>
  /\ connects = <<>>
  /\ fetches = {}
  /\ sends = <<>>
  /\ inflight = EmptyBag
  /\ nextChan = 1
  /\ nSends = 0
  /\ invoked = EmptyBag
  /\ auth = [calls |-> <<>>, made |-> 0, language |-> AccountLang, session |-> FALSE]
  /\ localStorage = NoUser
  /\ shown = [room |-> NoRoom, ids |-> {}]
  /\ admitPhase = "none"

\* A client calls fetchHistory(roomId): the call runs up to `await supabase...limit(50)`.
HistoryCall(r) ==
  /\ UNCHANGED sessionVars
  /\ UNCHANGED shown
  /\ fetches = {}
  /\ fetches' = {[inst |-> 0, room |-> r, isMounted |-> TRUE, status |-> "pending",
                  upTo |-> 0]}
  /\ UNCHANGED <<currentUser, userRef, currentRoom, messages, isHistoryLoading, inputText,
                 error, now, rows, sends, inflight, nSends, admitPhase>>
  /\ UNCHANGED adapterVars

\* The call returns its messages to the client, or throws the error of the query.
HistoryReturn(f) ==
  /\ UNCHANGED sessionVars
  /\ UNCHANGED shown
  /\ f \in fetches
  /\ f.status # "pending"
  /\ fetches' = fetches \ {f}
  /\ UNCHANGED <<currentUser, userRef, currentRoom, messages, isHistoryLoading, inputText,
                 error, now, rows, sends, inflight, nSends, admitPhase>>
  /\ UNCHANGED adapterVars

NextHistory ==
  \/ \E r \in Rooms : HistoryCall(r)
  \/ \E f \in fetches, ok \in BOOLEAN : FetchQuery(f, ok)
  \/ \E f \in fetches : HistoryReturn(f)

SpecHistory == InitHistory /\ [][NextHistory]_vars

\* ------------------------------------------------------------------ properties
UniqueIds(list) == \A i, j \in 1..Len(list) : list[i].id = list[j].id => i = j

CountId(list, id) == Cardinality({i \in 1..Len(list) : list[i].id = id})

Sorted(list) == \A i, j \in 1..Len(list) : i < j => list[i].timestamp <= list[j].timestamp

\* Eligible for translation: sent by someone else, in another language than the viewer's.
Eligible(m, user) ==
  m.senderEmail # user.email /\ m.senderLanguage # user.preferredLanguage

\* The temporary messages of `list` that a persisted message confirms.
TempMatches(list, msg) ==
  {i \in 1..Len(list) : /\ IsTemp(list[i].id)
                        /\ list[i].senderEmail = msg.senderEmail
                        /\ list[i].text = msg.text}

\* The message that the next event of channel c carries.
HeadMessage(c) == RowToMessage(rows[Head(channels[c].queue)])

\* Channel c hands its next event to processMessage, which finds a user.
LiveAdmit(c) ==
  /\ LiveDeliver(c)
  /\ "processMessage" \in handlers
  /\ userRef # NoUser

\* C1: after a history merge followed only by live admissions, among them events whose
\* id is already in the list, the list holds each id exactly once.
C1_HistoryThenLiveUnique ==
  admitPhase # "none" => UniqueIds(messages)

\* C1 witness: a live event with an id the list already held was handled after the merge.
C1_Witness ==
  /\ admitPhase = "overlap"
  /\ Len(messages) >= 2

\* C2 (as claimed): a persisted live message that arrives while the list holds a temporary
\* message of the same sender and text replaces it: afterwards the list holds the
\* persisted id exactly once and one matching temporary message less.
C2_TempReplaced ==
  [][\A c \in DOMAIN channels :
       (LiveAdmit(c) /\ TempMatches(messages, HeadMessage(c)) # {})
       => /\ CountId(messages', HeadMessage(c).id) = 1
          /\ Cardinality(TempMatches(messages', HeadMessage(c)))
               = Cardinality(TempMatches(messages, HeadMessage(c))) - 1]_vars

\* C3 (as claimed): the message list is in non-decreasing timestamp order in every state.
C3_Sorted == Sorted(messages)

\* C4 (as claimed): a message eligible for translation is marked isTranslating, with no
\* translatedText, right after the history merge or the live event that admits it.
C4_EligibleMarked ==
  [][/\ \A f \in fetches :
          FetchDone(f)
          => \A i \in 1..Len(messages') :
               (Eligible(messages'[i], currentUser) /\ ~HasId(messages, messages'[i].id))
               => messages'[i].isTranslating /\ messages'[i].translatedText = NoText
     /\ \A c \in DOMAIN channels :
          LiveAdmit(c)
          => \A i \in 1..Len(messages') :
               (Eligible(messages'[i], currentUser) /\ ~HasId(messages, messages'[i].id))
               => messages'[i].isTranslating /\ messages'[i].translatedText = NoText]_vars

\* C5: no message sent by the viewing user is marked isTranslating.
C5_OwnNeverTranslating ==
  \A i \in 1..Len(messages) :
    messages[i].senderEmail = currentUser.email => ~messages[i].isTranslating

\* C5 witness: in the open room, a live event admitted a confirmed row of the viewer that
\* is written in another language than the viewer's.
C5_Witness ==
  \E i \in 1..Len(messages) :
    /\ currentRoom # NoRoom
    /\ ~IsTemp(messages[i].id)
    /\ messages[i].senderEmail = currentUser.email
    /\ messages[i].senderLanguage # currentUser.preferredLanguage
    /\ admitPhase \in {"live", "overlap"}

\* A step in which send i leaves the calls in flight and the store gains no row: the
\* store rejected it.
RejectedStep(i) ==
  /\ i \in 1..Len(sends)
  /\ sends' = RemoveAt(sends, i)
  /\ rows' = rows

\* C6: when the store rejects a send, its optimistic message is gone from the list, the
\* draft is the submitted text again, the error state is set, and user and room are as
\* they were.
C6_RejectRollsBack ==
  [][\A i \in 1..Len(sends) :
       RejectedStep(i)
       => /\ ~HasId(messages', sends[i].tempId)
          /\ inputText' = sends[i].text
          /\ error' # NoError
          /\ currentUser' = currentUser
          /\ currentRoom' = currentRoom]_vars

\* C6 witness: a rejection was handled while its optimistic message shared the list with
\* another message.
C6_Witness ==
  /\ error = "Send Failed"
  /\ inputText \in Drafts
  /\ nSends >= 1
  /\ Len(sends) < nSends
  /\ messages # <<>>

\* C7 (as claimed): an event that a channel of another room than the current one delivers
\* is not admitted into the list.
C7_NoForeignAdmission ==
  [][\A c \in DOMAIN channels :
       (LiveDeliver(c) /\ currentRoom # NoRoom /\ channels[c].room # currentRoom)
       => messages' = messages]_vars

\* The channels that are subscribed and whose teardown has not begun.
ActiveSubscriptions == {c \in DOMAIN channels : channels[c].state = "joined"}

\* C8 (as claimed): the adapter holds at most one active room subscription, whatever the
\* sequence and overlap of connect calls.
C8_AtMostOneSubscription == Cardinality(ActiveSubscriptions) <= 1

\* C9 (as claimed): at most one translation request is outstanding.
C9_OneOutstanding == BagCardinality(inflight) <= 1

\* C10 (as claimed): no two messages of the list have the same id.
C10_UniqueIds == UniqueIds(messages)

Min(a, b) == IF a < b THEN a ELSE b

\* The rows of the room of call f that the store held when the query of f ran.
RoomRows(f) == InRoom(SubSeq(rows, 1, f.upTo), f.room)

\* C11 (as claimed): a fetchHistory call whose query succeeds returns min(50, n) messages
\* of the n rows of the room, each row at most once and no row of another room, ordered
\* oldest-first, and no row of the room that it leaves out is more recent than one that
\* it returns.
C11_MostRecent ==
  \A f \in fetches :
    f.status = "ok"
    => LET res == HistoryResult(f)
           kept == {res[i].id.n : i \in 1..Len(res)}
           room == RoomRows(f)
       IN /\ Len(res) = Min(HISTORY_LIMIT, Len(room))
          /\ UniqueIds(res)
          /\ \A i \in 1..Len(res) : \E j \in 1..Len(room) : res[i] = RowToMessage(room[j])
          /\ Sorted(res)
          /\ \A j \in 1..Len(room) :
               room[j].id \notin kept
               => \A i \in 1..Len(res) : room[j].created_at <= res[i].timestamp

\* A step in which a connect() call subscribes: at once, or after its await.
Subscribes == nextChan' = nextChan + 1

\* The room that the connect() call of a subscribing step was called with.
SubscribedRoom ==
  IF connects # <<>> /\ Len(connects') < Len(connects)
  THEN connects[CHOOSE i \in 1..Len(connects) : connects' = RemoveAt(connects, i)].room
  ELSE channels'[nextChan].room

\* C12: under connect calls that do not overlap, no subscription is active while a call
\* waits for the teardown of the one before it; when a call subscribes, the teardown of
\* every earlier subscription has begun, and afterwards the only active subscription is
\* the one the adapter holds, for the room of the call.
C12_TeardownBeforeSubscribe ==
  [][/\ connects' # <<>> => ActiveSubscriptions' = {}
     /\ Subscribes
        => /\ ActiveSubscriptions = {}
           /\ \A i \in 1..Len(connects) :
                ConnectResume(i) => connects[i].awaiting \notin DOMAIN channels
           /\ ActiveSubscriptions' = {roomChannel'}
           /\ channels'[roomChannel'].room = SubscribedRoom]_vars

\* C12 witness: connect("B") has completed after an earlier subscription to room "A"
\* that received an event; only room "B" is subscribed.
C12_Witness ==
  /\ connects = <<>>
  /\ nextChan >= 3
  /\ roomChannel # NoChannel
  /\ channels[roomChannel].room = "B"
  /\ ActiveSubscriptions = {roomChannel}
  /\ \E i \in 1..Len(rows) : rows[i].room_id = "A"
  /\ invoked # EmptyBag

\* C13: after disconnect() the adapter holds no room channel and has no listeners, and
\* the subscription it held is not active any more; when it held none, the call changes
\* nothing but the listeners.
C13_DisconnectClears ==
  [][AdapterDisconnect
     => /\ roomChannel' = NoChannel
        /\ handlers' = {}
        /\ roomChannel \notin ActiveSubscriptions'
        /\ roomChannel = NoChannel
           => UNCHANGED <<channels, connects, nextChan, invoked, rows>>]_vars

\* C13 witness: disconnect() was called on an adapter whose subscription had delivered
\* an event to a listener; the channel is leaving, nothing is held, no listener is left.
C13_Witness ==
  /\ roomChannel = NoChannel
  /\ handlers = {}
  /\ connects = <<>>
  /\ invoked # EmptyBag
  /\ ActiveSubscriptions = {}
  /\ \E c \in DOMAIN channels : channels[c].state = "leaving"

\* How often listener h has been invoked for the row with this id.
Invocations(log, h, id) == CopiesIn([handler |-> h, id |-> id], log)

\* C14: calling the closure that onMessage(h) returned removes h from the listeners and
\* changes nothing else, so that every other listener stays registered; calling it when
\* h is not registered changes nothing; and every event that a channel delivers invokes
\* each listener registered at that time once more.
C14_RemovesOnlyItsListener ==
  [][/\ \A h \in Handlers :
          AdapterRemoveHandler(h)
          => /\ handlers' = handlers \ {h}
             /\ UNCHANGED <<roomChannel, channels, connects, nextChan, invoked, rows>>
             /\ h \notin handlers => handlers' = handlers
     /\ \A c \in DOMAIN channels :
          AdapterDeliver(c)
          => \A h \in Handlers :
               Invocations(invoked', h, Head(channels[c].queue))
                 = Invocations(invoked, h, Head(channels[c].queue))
                     + (IF h \in handlers THEN 1 ELSE 0)]_vars

\* C14 witness: two listeners received the first message; then the closure of "h1" was
\* called, and the held subscription delivered the second message to "h2" alone.
C14_Witness ==
  /\ handlers = {"h2"}
  /\ roomChannel \in ActiveSubscriptions
  /\ nextChan = 2
  /\ Invocations(invoked, "h1", 1) = 1
  /\ Invocations(invoked, "h2", 1) = 1
  /\ Invocations(invoked, "h1", 2) = 0
  /\ Invocations(invoked, "h2", 2) = 1

\* C15 (as claimed): no listener is invoked more than once for a message, and when the
\* subscription that the adapter holds delivers a message, every registered listener has
\* then been invoked for it exactly once.
C15_ExactlyOnce ==
  /\ [](\A e \in BagToSet(invoked) : CopiesIn(e, invoked) = 1)
  /\ [][\A c \in DOMAIN channels :
          (AdapterDeliver(c) /\ c = roomChannel)
          => \A h \in handlers : Invocations(invoked', h, Head(channels[c].queue)) = 1]_vars

\* C16: when the query of a fetchHistory call failed, the call does not return: initRoom
\* takes its catch branch, which sets the error state and merges nothing into the list,
\* and the room entry that is still open has its history loading finished.
C16_FetchFailureSurfaces ==
  [][\A f \in fetches :
       (FetchDone(f) /\ f.status = "error")
       => /\ error' # NoError
          /\ messages' = messages
          /\ f.isMounted => ~isHistoryLoading']_vars

\* C16 witness: the first room entry is still open, its history query failed, loading
\* is finished and the error state is set, with an empty list.
C16_Witness ==
  /\ currentRoom # NoRoom
  /\ nextChan = 2
  /\ fetches = {}
  /\ sends = <<>>
  /\ nSends = 0
  /\ ~isHistoryLoading
  /\ error = "Sync Error"
  /\ messages = <<>>

\* C17 (as claimed): in every state, no message written in the viewer's current
\* preferred language is marked isTranslating.
C17_OwnLanguageNeverTranslating ==
  \A i \in 1..Len(messages) :
    messages[i].senderLanguage = currentUser.preferredLanguage => ~messages[i].isTranslating

\* The translation attempts in flight for the message with this id.
Attempts(id) ==
  BagCardinality([e \in {x \in BagToSet(inflight) : x.id = id} |-> inflight[e]])

\* C18 (as claimed): a message marked isTranslating has exactly one translation attempt
\* in flight, or none while it waits for the attempt of another message to complete;
\* never two or more, and never none with nothing in flight.
C18_ExactlyOneAttempt ==
  \A i \in 1..Len(messages) :
    messages[i].isTranslating
    => \/ Attempts(messages[i].id) = 1
       \/ Attempts(messages[i].id) = 0 /\ inflight # EmptyBag

\* The list holds the persisted message n, eligible for translation and not translated.
AwaitsTranslation(n) ==
  \E i \in 1..Len(messages) :
    /\ messages[i].id = RowId(n)
    /\ Eligible(messages[i], currentUser)
    /\ messages[i].isTranslating \/ messages[i].translatedText = NoText

\* The list holds the persisted message n with a translatedText and isTranslating false.
IsTranslated(n) ==
  \E i \in 1..Len(messages) :
    /\ messages[i].id = RowId(n)
    /\ ~messages[i].isTranslating
    /\ messages[i].translatedText # NoText

\* C19 (as claimed): when pending answers arrive, every eligible message of the list is
\* eventually translated (a translatedText, isTranslating false), unless it leaves the
\* list or stops being eligible; so is the one message of a history that is eligible.
C19_EventuallyTranslated ==
  \A n \in 1..MaxOps :
    AwaitsTranslation(n) ~> (IsTranslated(n) \/ ~AwaitsTranslation(n))

\* C20: when a translation attempt fails, the list keeps its messages, and the message
\* of the attempt has its original text as translatedText and isTranslating false.
C20_FailureFallsBack ==
  [][\A req \in BagToSet(inflight) :
       TranslateDone(req, FALSE)
       => /\ Len(messages') = Len(messages)
          /\ \A i \in 1..Len(messages) :
               /\ messages'[i].id = messages[i].id
               /\ messages[i].id = req.id
                  => /\ messages'[i].translatedText = messages[i].text
                     /\ ~messages'[i].isTranslating]_vars

\* C20 witness: a message of the other user, admitted live in the open room, carries its
\* original text as translatedText and is not marked: its translation attempt failed.
C20_Witness ==
  \E i \in 1..Len(messages) :
    /\ currentRoom # NoRoom
    /\ messages[i].senderEmail = Other
    /\ messages[i].senderLanguage # currentUser.preferredLanguage
    /\ messages[i].translatedText = messages[i].text
    /\ ~messages[i].isTranslating
    /\ inflight = EmptyBag

\* C21: handling a failed translation attempt leaves the error state, the draft, the
\* current room and the user as they were, and every message of the list other than
\* the one of the attempt unchanged.
C21_FailureStaysLocal ==
  [][\A req \in BagToSet(inflight) :
       TranslateDone(req, FALSE)
       => /\ UNCHANGED <<error, inputText, currentRoom, currentUser, isHistoryLoading>>
          /\ Len(messages') = Len(messages)
          /\ \A i \in 1..Len(messages) :
               messages[i].id # req.id => messages'[i] = messages[i]]_vars

\* C21 witness: in the open room, with a draft typed, the list holds an optimistic
\* message of the viewer next to a message of the other user whose attempt failed.
C21_Witness ==
  /\ currentRoom # NoRoom
  /\ inputText \in Drafts
  /\ error = NoError
  /\ \E i, j \in 1..Len(messages) :
       /\ IsTemp(messages[i].id)
       /\ messages[j].senderEmail = Other
       /\ messages[j].translatedText = messages[j].text
       /\ ~messages[j].isTranslating

\* C22: a live event whose id the list already holds is discarded: the list, with its
\* order and its translation annotations, is exactly what it was, and no translation
\* request is made for the event.
C22_IdempotentIngestion ==
  [][\A c \in DOMAIN channels :
       (LiveAdmit(c) /\ HasId(messages, HeadMessage(c).id))
       => /\ messages' = messages
          /\ inflight' = inflight]_vars

\* C22 witness: after the history merge a live event was handled whose id the list
\* already held, and the message of the other user keeps the translation it had got.
C22_Witness ==
  /\ admitPhase = "overlap"
  /\ currentRoom # NoRoom
  /\ \E i \in 1..Len(messages) :
       /\ messages[i].senderEmail = Other
       /\ messages[i].translatedText = Translated(messages[i].text)
       /\ ~messages[i].isTranslating

\* How often the message m occurs in the list.
Occurrences(list, m) == Cardinality({i \in 1..Len(list) : list[i] = m})

\* A history completion of the entry that is still open, with a result.
MergeStep(f) == FetchDone(f) /\ f.isMounted /\ ~FetchThrows(f)

\* C23 (as claimed): the history merge keeps every message that was in memory, adds
\* every history message whose id was absent, and leaves each id once in the list.
C23_MergeKeepsAll ==
  [][\A f \in fetches :
       MergeStep(f)
       => /\ \A i \in 1..Len(messages) :
               Occurrences(messages', messages[i]) >= Occurrences(messages, messages[i])
          /\ \A k \in 1..Len(HistoryResult(f)) :
               ~HasId(messages, HistoryResult(f)[k].id)
               => Occurrences(messages', HistoryResult(f)[k]) = 1
          /\ UniqueIds(messages')]_vars

\* C24 (as claimed): in the history merge a persisted row of the history that the list
\* does not hold replaces a temporary message of the same sender and text, so that the
\* list holds one such placeholder less; and a message of the list that the history
\* holds too keeps its translatedText and isTranslating.
C24_RicherOverwrites ==
  [][\A f \in fetches :
       MergeStep(f)
       => /\ \A k \in 1..Len(HistoryResult(f)) :
               (/\ ~HasId(messages, HistoryResult(f)[k].id)
                /\ TempMatches(messages, HistoryResult(f)[k]) # {})
               => Cardinality(TempMatches(messages', HistoryResult(f)[k]))
                    < Cardinality(TempMatches(messages, HistoryResult(f)[k]))
          /\ \A i \in 1..Len(messages) :
               HasId(HistoryResult(f), messages[i].id)
               => \E j \in 1..Len(messages') :
                    /\ messages'[j].id = messages[i].id
                    /\ messages'[j].translatedText = messages[i].translatedText
                    /\ messages'[j].isTranslating = messages[i].isTranslating]_vars

\* A step in which sendMessage runs up to its await: one more local send was made.
SendStep == nSends' = nSends + 1

\* C25: when sendMessage hands the message to the Sync Adapter, the list ends with the
\* temporary message (id temp-<Date.now()>, the submitted text, isTranslating false, no
\* translatedText) and the draft is empty, while the store has not answered: the call
\* is in flight and the store holds no new row.
C25_OptimisticBeforePersist ==
  [][SendStep
     => /\ messages' = Append(messages, OptimisticMessage(currentUser, inputText, now'))
        /\ messages'[Len(messages')].id = TempId(now')
        /\ ~messages'[Len(messages')].isTranslating
        /\ messages'[Len(messages')].translatedText = NoText
        /\ inputText' = ""
        /\ Len(sends') = Len(sends) + 1
        /\ sends'[Len(sends')].tempId = TempId(now')
        /\ rows' = rows]_vars

\* C25 witness: a send is in flight, the store holds no row, the list holds the
\* temporary message of the send and the draft is empty.
C25_Witness ==
  /\ Len(sends) = 1
  /\ rows = <<>>
  /\ inputText = ""
  /\ messages # <<>>
  /\ messages[Len(messages)].id = sends[1].tempId
  /\ messages[Len(messages)].text = sends[1].text

\* C26: the completion of a translation attempt, with a result or a failure, for a
\* message that the list does not hold any more leaves the list as it is.
C26_CompletionForAbsentMessage ==
  [][\A req \in BagToSet(inflight), ok \in BOOLEAN :
       (TranslateDone(req, ok) /\ ~HasId(messages, req.id))
       => messages' = messages]_vars

\* C26 witness: the room was entered again, which emptied the list, while the attempt
\* for a message admitted during the first entry is answered by the gateway.
C26_Witness ==
  /\ currentRoom # NoRoom
  /\ nextChan = 3
  /\ messages = <<>>
  /\ isHistoryLoading
  /\ \E req \in BagToSet(inflight) : ~IsTemp(req.id) /\ rows[req.id.n].sender_email = Other

\* A step that empties the list on purpose: setMessages([]) of initRoom and of logout.
ClearStep == (currentRoom' # currentRoom /\ currentRoom' # NoRoom) \/ currentUser' = NoUser

\* A step in which the store rejects a send, whose optimistic message is rolled back.
RollbackStep == \E i \in 1..Len(sends) : RejectedStep(i)

\* C27 (as claimed): whatever the interleaving of translation completions, live events,
\* history completions, sends and rollbacks, a mutation of the list loses no message
\* (the list does not shrink and keeps every persisted id, except when it is emptied on
\* purpose or a rejected send is rolled back) and loses no translation: a message that
\* carries the gateway's translation keeps it.
C27_NoLostUpdate ==
  [][~ClearStep
     => /\ RollbackStep \/ Len(messages') >= Len(messages)
        /\ \A i \in 1..Len(messages) :
             /\ ~IsTemp(messages[i].id) => HasId(messages', messages[i].id)
             /\ messages[i].translatedText = Translated(messages[i].text)
                => \E j \in 1..Len(messages') :
                     /\ messages'[j].id = messages[i].id
                     /\ messages'[j].translatedText = messages[i].translatedText]_vars

\* The list holds the persisted message n, eligible for translation.
EligibleInList(n) ==
  \E i \in 1..Len(messages) :
    messages[i].id = RowId(n) /\ Eligible(messages[i], currentUser)

\* The list holds the persisted message n with its original text as translatedText
\* and isTranslating false.
FellBack(n) ==
  \E i \in 1..Len(messages) :
    /\ messages[i].id = RowId(n)
    /\ messages[i].translatedText = messages[i].text
    /\ ~messages[i].isTranslating

\* C28 (as claimed): without credentials no message ever carries a text of the gateway,
\* and every eligible message of the list ends with its original text as translatedText
\* and isTranslating false, unless it leaves the list or stops being eligible.
C28_NoKeyFallsBack ==
  /\ [](\A i \in 1..Len(messages) :
          messages[i].translatedText \in {NoText, messages[i].text})
  /\ \A n \in 1..MaxOps :
       EligibleInList(n) ~> (FellBack(n) \/ ~EligibleInList(n))

\* A step in which logout runs: the user becomes absent.
LogoutStep == currentUser # NoUser /\ currentUser' = NoUser

\* C29: logout leaves no user, no room and an empty list; and while no room is open an
\* empty list stays empty, whatever history completion, live event, translation
\* completion or send outcome arrives.
C29_LogoutClears ==
  [][/\ LogoutStep
        => /\ currentRoom' = NoRoom
           /\ messages' = <<>>
     /\ (currentRoom = NoRoom /\ currentRoom' = NoRoom /\ messages = <<>>)
        => messages' = <<>>]_vars

\* C29 witness: nobody is signed in, the list is empty, and the rejection of a send that
\* was in flight at logout has been handled (it set the error state).
C29_Witness ==
  /\ currentUser = NoUser
  /\ currentRoom = NoRoom
  /\ messages = <<>>
  /\ nextChan >= 2
  /\ rows # <<>>
  /\ error = "Send Failed"

\* A step of a guest's language-preference change or logout.
GuestSessionStep ==
  currentUser.isGuest /\ ((\E lang \in Langs : LanguageChange(lang)) \/ Logout)

\* C30: a guest's language-preference change and a guest's logout make no call of the
\* account store (updateUser, signOut): the step leaves supabase.auth as it is and writes
\* the new user, or its absence, to local state and localStorage.
C30_GuestNeverCallsAccountStore ==
  [][GuestSessionStep => /\ auth' = auth
                         /\ currentUser' # currentUser
                         /\ localStorage' = currentUser']_vars

\* C30 witness: a guest reads in another language than the one under which the list's
\* message of the other user was admitted, so the guest changed it; the account store
\* was never called.
C30_Witness ==
  /\ currentUser.isGuest
  /\ currentUser.preferredLanguage = OtherLang
  /\ localStorage = currentUser
  /\ auth.made = 0
  /\ \E i \in 1..Len(messages) :
       /\ messages[i].senderEmail = Other
       /\ messages[i].isTranslating \/ messages[i].translatedText # NoText

\* The step issues the translation request r: the translation effect that runs on the
\* step's commit calls translateText for it.
Issued(r) ==
  \/ CopiesIn(r, inflight') > CopiesIn(r, inflight)
  \/ \E ok \in BOOLEAN :
       /\ BagIn(r, inflight)
       /\ TranslateDone(r, ok)
       /\ CopiesIn(r, inflight') > CopiesIn(r, inflight) - 1

\* Message `id` is, among the messages of `list` that are eligible for `user` and have
\* no translatedText, one of smallest timestamp.
OldestEligibleUntranslated(id, list, user) ==
  \E i \in 1..Len(list) :
    /\ list[i].id = id
    /\ Eligible(list[i], user)
    /\ list[i].translatedText = NoText
    /\ \A j \in 1..Len(list) :
         (Eligible(list[j], user) /\ list[j].translatedText = NoText)
         => list[i].timestamp <= list[j].timestamp

\* Message `id` is, among the messages of `list` marked isTranslating that have no
\* translatedText, one of smallest timestamp.
OldestMarkedUntranslated(id, list) ==
  \E i \in 1..Len(list) :
    /\ list[i].id = id
    /\ list[i].isTranslating /\ list[i].translatedText = NoText
    /\ \A j \in 1..Len(list) :
         (list[j].isTranslating /\ list[j].translatedText = NoText)
         => list[i].timestamp <= list[j].timestamp

\* C31 (as claimed): whenever a translation request is issued, it is for the eligible
\* untranslated message of smallest timestamp in the list.
C31_OldestFirst ==
  [][\A r \in BagToSet(inflight') :
       Issued(r) => OldestEligibleUntranslated(r.id, messages', currentUser')]_vars

\* What the code keeps: a request is issued for the oldest message that is marked
\* isTranslating and has no translatedText.
OldestMarkedFirst ==
  [][\A r \in BagToSet(inflight') :
       Issued(r) => OldestMarkedUntranslated(r.id, messages')]_vars

\* Every local send has resolved: no chatSync.sendMessage call is in flight and no
\* channel still holds the live event of a row of the user.
SendsResolved ==
  /\ sends = <<>>
  /\ \A c \in DOMAIN channels :
       \A k \in 1..Len(channels[c].queue) :
         rows[channels[c].queue[k]].sender_email # Self

\* C32 (as claimed): in a room, once every local send has resolved, the list holds no
\* temporary message.
C32_NoTempLeft ==
  (currentRoom # NoRoom /\ nSends > 0 /\ SendsResolved)
  => \A i \in 1..Len(messages) : ~IsTemp(messages[i].id)

\* The fetchHistory call f was started by a room entry that is not the current one: the
\* user has left its room, or entered a room again since.
StaleFetch(f) == currentRoom = NoRoom \/ f.inst # nextChan - 1

\* C33: the result of a history fetch that resolves after the user has left its room,
\* or has entered a room again, is not merged: the list stays as it is.
C33_StaleHistoryNotMerged ==
  [][\A f \in fetches : (FetchDone(f) /\ StaleFetch(f)) => messages' = messages]_vars

\* C33 witness: the fetch of the one room entry returned a result after the user left
\* (the loading flag it would have cleared is still set, no error is shown), the store
\* holds a row of that room, and the list is empty.
C33_Witness ==
  /\ currentRoom = NoRoom
  /\ nextChan = 2
  /\ fetches = {}
  /\ isHistoryLoading
  /\ error = NoError
  /\ messages = <<>>
  /\ 1 \in DOMAIN channels
  /\ \E k \in 1..Len(rows) :
       rows[k].sender_email = Other /\ rows[k].room_id = channels[1].room

\* C34 (as claimed): a connect call that waited for the teardown of the previous
\* subscription while disconnect() was called (it finds roomChannel null when it
\* resumes) makes no subscription.
C34_DisconnectCancelsConnect ==
  [][\A i \in 1..Len(connects) :
       (ConnectResume(i) /\ roomChannel = NoChannel) => ~Subscribes]_vars

\* A step that enters a room.
EnterStep == currentRoom = NoRoom /\ currentRoom' # NoRoom

\* C35 (as claimed): entering a room resets the list, and while a room other than the
\* one left last is shown, the list holds no persisted message that the list of that
\* room held.
C35_ResetOnEntry ==
  /\ [][EnterStep => messages' = <<>>]_vars
  /\ [](currentRoom \notin {NoRoom, shown.room}
        => \A i \in 1..Len(messages) :
             IsTemp(messages[i].id) \/ messages[i].id \notin shown.ids)

\* C36 (as claimed): the rollback of a rejected send takes the temporary message of that
\* send out of the list and nothing else: the other messages, temporary and confirmed,
\* stay, in the same order and with the same annotations.
C36_RollbackRemovesOnlyItsMessage ==
  [][\A i \in 1..Len(sends) :
       RejectedStep(i)
       => IF HasId(messages, sends[i].tempId)
          THEN \E k \in 1..Len(messages) :
                 /\ messages[k].id = sends[i].tempId
                 /\ messages' = RemoveAt(messages, k)
          ELSE messages' = messages]_vars

\* C37 (as claimed): while a room is shown, the failure of a history fetch of an earlier
\* room entry and the rejection of a send made in another room leave the error state and
\* the draft as they are.
C37_StaleOutcomeKeepsErrorAndDraft ==
  [][/\ \A f \in fetches :
          (FetchDone(f) /\ StaleFetch(f) /\ currentRoom # NoRoom)
          => (error' = error /\ inputText' = inputText)
     /\ \A i \in 1..Len(sends) :
          (RejectedStep(i) /\ currentRoom # NoRoom /\ sends[i].room # currentRoom)
          => (error' = error /\ inputText' = inputText)]_vars

\* A step of sendMessage, whatever it does.
SendAttempt == \E t \in 1..MaxTime : Send(t)

\* C38: sendMessage called with a draft that is empty or only whitespace, or with no
\* current user or no current room, appends no message, leaves the draft and the error
\* state as they are and makes no call of chatSync.sendMessage.
C38_InvalidSendChangesNothing ==
  [][(SendAttempt /\ (Trim(inputText) = "" \/ currentUser = NoUser \/ currentRoom = NoRoom))
     => UNCHANGED <<messages, inputText, error, sends, nSends>>]_vars

\* C38 witness: a room is shown, the draft is whitespace and an error is displayed: the
\* state in which sendMessage returns at once and which it leaves as it is.
C38_Witness ==
  /\ currentUser # NoUser
  /\ currentRoom # NoRoom
  /\ inputText = " "
  /\ error # NoError
  /\ messages # <<>>

====
